---- MODULE Spec2Model ----
(***************************************************************************)
(* Model of the gamma strip-packing engine (algorithm/gamma_algorithm.py). *)
(*                                                                         *)
(* Lengths are exact fixed-point numbers: the integer k stands for the     *)
(* length k / Unit.  The gap pow(1 / i, gamma) is therefore the integer    *)
(* Unit / i^gamma, which is exact for every index the model reaches.       *)
(* Floating-point rounding is not modelled.                                *)
(***************************************************************************)
EXTENDS Integers, Sequences, FiniteSets, TLC

\* ---------------------------------------------------------------- bounds
\* Number of details the driver places before it stops.
MaxPlaced == 4

\* One length unit, divisible by i^gamma for every reachable index i.
Unit == 60 * 60

\* Constructor arguments the runs are drawn from.
Gammas == {1, 2}
N0s == {1, 2}
\* Sheet sizes (width, height): 2 x 3, 3 x 2 and 1 x 1 length units.
Sheets == {<<7200, 10800>>, <<10800, 7200>>, <<3600, 3600>>}
\* The sizes (width, height) of incoming details: 1/4, 1/2 and 1 length unit.
Sizes == {<<900, 900>>, <<1800, 900>>, <<1800, 1800>>, <<3600, 900>>,
          <<900, 3600>>, <<3600, 1800>>}

VARIABLES
    gamma,                      \* self.gamma
    n0,                         \* constructor argument n0
    update_placed_details,      \* self.update_placed_details
    statistic_listeners,        \* self.statistic_listeners, in registration order
    boxes,                      \* self.boxes, the SortedSet as its sorted list
    lrp,                        \* self.lrp
    stripe,                     \* self.stripe
    stripe_first_detail_index,  \* self.stripe_first_detail_index
    is_stripe_horizontal,       \* self.is_stripe_horizontal
    last_placed_index,          \* self.last_placed_index
    endpoints_placed,           \* self.endpoints_placed
    stripe_from,                \* self.stripe_from
    placed_details,             \* the driver's list passed to place_next
    base_detail,                \* the driver's sheet, base_detail
    detail,                     \* the argument of the latest place_next call
    events,                     \* events handed to _notify_statistic_listeners
    handled,                    \* the calls of handle made, in order
    tracker,                    \* the fields of the NormalBoxMaxRatioTracker
    output_handler,             \* the fields of the tracker's OutputHandler
    file,                       \* the lines of the file at file_path
    console,                    \* the lines printed
    written,                    \* the messages of the writes that returned
    raised                      \* exception that ended the run, or "none"

vars == <<gamma, n0, update_placed_details, statistic_listeners, boxes, lrp,
          stripe, stripe_first_detail_index, is_stripe_horizontal,
          last_placed_index, endpoints_placed, stripe_from, placed_details,
          base_detail, detail, events, handled, tracker, output_handler, file,
          console, written, raised>>

\* ------------------------------------------------------------ class names
DETAIL_PREFIX == "S"
DETAIL_NAME == "detail"
NORMAL_BOX_PREFIX == "B"
NORMAL_BOX_TYPE_1_NAME == "normal_box_1"
NORMAL_BOX_TYPE_2_NAME == "normal_box_2"
ENDPOINT_PREFIX == "Ep"
ENDPOINT_TYPE_1_NAME == "endpoint_1"
ENDPOINT_TYPE_2_NAME == "endpoint_2"
LRP_PREFIX == "LRP"
LRP_NAME == "lrp"

AFTER_DETAIL_PLACED == "Gamma algorithm after detail placed event"
BEFORE_LRP_CUT == "Gamma algorithm before LRP cut event"
AFTER_LRP_CUT == "Gamma algorithm after LRP cut event"
ALGORITHM_END == "Gamma algorithm end event"

\* Python's None where a Detail is expected, and where a string is expected.
None == [detail_type |-> "None"]
NoneStr == "None"

\* ------------------------------------------------------------------ Detail
\* Detail.__init__.  A name f'{prefix}{index}' is the pair <<prefix, index>>.
Detail(bottom_left, top_right, name, detail_type) ==
    [bottom_left |-> bottom_left, top_right |-> top_right,
     name |-> name, detail_type |-> detail_type]

width(d) == d.top_right[1] - d.bottom_left[1]
height(d) == d.top_right[2] - d.bottom_left[2]

Min(a, b) == IF a <= b THEN a ELSE b
Max(a, b) == IF a >= b THEN a ELSE b

RECURSIVE Pow(_, _)
Pow(b, e) == IF e = 0 THEN 1 ELSE b * Pow(b, e - 1)

\* Mutant: the gap does not depend on the index.
required_gap_without_index(index, g) == Unit

\* pow(1 / index, gamma), in units of 1 / Unit.
required_gap(index, g) == Unit \div Pow(index, g)

\* Mutant: the comparator's sign is reversed (smallest min-side first).
detail_comparator_ascending(detail1, detail2) ==
    Min(width(detail1), height(detail1)) - Min(width(detail2), height(detail2))

\* ---------------------------------------------------------------- Box Pool
\* _detail_comparator: positive if detail1 sorts after detail2.
detail_comparator(detail1, detail2) ==
    Min(width(detail2), height(detail2)) - Min(width(detail1), height(detail1))

\* Mutant: a value that ties with an element of the pool is not added.
boxes_add_unless_tied(bs, value) ==
    IF \E i \in 1..Len(bs) : detail_comparator(bs[i], value) = 0 THEN bs
    ELSE LET k == Cardinality({i \in 1..Len(bs) :
                                   detail_comparator(bs[i], value) <= 0})
         IN SubSeq(bs, 1, k) \o <<value>> \o SubSeq(bs, k + 1, Len(bs))

\* Mutant: the value goes before the elements it ties with (bisect_left).
boxes_add_before_ties(bs, value) ==
    LET k == Cardinality({i \in 1..Len(bs) : detail_comparator(bs[i], value) < 0})
    IN SubSeq(bs, 1, k) \o <<value>> \o SubSeq(bs, k + 1, Len(bs))

\* SortedSet.add: the value goes after every element that does not sort after it
\* (bisect_right on the key); Details hash by identity, so it is always added.
boxes_add(bs, value) ==
    LET k == Cardinality({i \in 1..Len(bs) : detail_comparator(bs[i], value) <= 0})
    IN SubSeq(bs, 1, k) \o <<value>> \o SubSeq(bs, k + 1, Len(bs))

\* list.remove / SortedSet.remove: drop the first occurrence of the value.
RemoveFirst(seq, value) ==
    LET hits == {i \in 1..Len(seq) : seq[i] = value}
        k == CHOOSE i \in hits : \A j \in hits : i <= j
    IN SubSeq(seq, 1, k - 1) \o SubSeq(seq, k + 1, Len(seq))

Contains(seq, value) == \E i \in 1..Len(seq) : seq[i] = value

\* ------------------------------------------------------------------ engine
\* The engine's fields, the driver's list and the emitted events, as one record
\* threaded through the steps of place_next.
Self ==
    [gamma |-> gamma, update_placed_details |-> update_placed_details,
     boxes |-> boxes, lrp |-> lrp, stripe |-> stripe,
     stripe_first_detail_index |-> stripe_first_detail_index,
     is_stripe_horizontal |-> is_stripe_horizontal,
     last_placed_index |-> last_placed_index,
     endpoints_placed |-> endpoints_placed, stripe_from |-> stripe_from,
     placed_details |-> placed_details, events |-> events, raised |-> raised,
     statistic_listeners |-> statistic_listeners, handled |-> handled,
     tracker |-> tracker, output_handler |-> output_handler, file |-> file,
     console |-> console, written |-> written]

\* GammaAlgorithmEvent.__init__: the snapshot an event carries.  placed_details
\* is the content of the driver's list at the moment of dispatch.
GammaAlgorithmEvent(s, type, d) ==
    [type |-> type, gamma |-> s.gamma, lrp |-> s.lrp, stripe |-> s.stripe,
     stripe_first_detail_index |-> s.stripe_first_detail_index,
     is_stripe_horizontal |-> s.is_stripe_horizontal,
     last_placed_index |-> s.last_placed_index,
     endpoints_placed |-> s.endpoints_placed,
     stripe_from |-> s.stripe_from, detail |-> d,
     placed_details |-> s.placed_details]

\* Mutant: the after-placement event carries the after-cut event type.
after_placed_event_typed_after_cut(s, d, placed_detail, normal_box, endpoint) ==
    GammaAlgorithmEvent(s, AFTER_LRP_CUT, d) @@
    [placed_detail |-> placed_detail, normal_box |-> normal_box,
     endpoint |-> endpoint]

\* GammaAlgorithmAfterDetailPlacedEvent.__init__: the three new shapes as well.
GammaAlgorithmAfterDetailPlacedEvent(s, d, placed_detail, normal_box, endpoint) ==
    GammaAlgorithmEvent(s, AFTER_DETAIL_PLACED, d) @@
    [placed_detail |-> placed_detail, normal_box |-> normal_box,
     endpoint |-> endpoint]

\* A registered listener: the event type its get_event_type returns, and the
\* call of its handle that raises (the fail_at-th one; 0 when it never raises).
Listener(event_type, fail_at) ==
    [event_type |-> event_type, fail_at |-> fail_at, kind |-> "listener"]

\* Mutant: every listener is handed every event.
listens_to_any(statistic, event) == TRUE

\* statistic.get_event_type() == event.get_event_type()
listens_to(statistic, event) == statistic.event_type = event.type

\* ----------------------------------------------------------- OutputHandler
CONSOLE == "console"
FILE_APPEND == "file_append"
FILE_OVERWRITE == "file_overwrite"

\* OutputHandler.__init__
OutputHandler(mode, file_path) ==
    [mode |-> mode, file_path |-> file_path, first_write |-> TRUE]

\* The truth value of self.file_path: None and the empty string are false.
has_file_path(oh) == oh.file_path # NoneStr /\ oh.file_path # ""

\* Mutant: every write in file_overwrite mode opens the file with 'w'.
opens_for_overwrite_always(oh) == oh.mode = FILE_OVERWRITE

\* self.mode == self.FILE_OVERWRITE and self.first_write
opens_for_overwrite(oh) == oh.mode = FILE_OVERWRITE /\ oh.first_write

\* OutputHandler.write on the handler, file and console that s holds: one line
\* per message; written logs the messages of the writes that return.
OutputHandler_write(s, message) ==
    LET oh == s.output_handler
    IN IF oh.mode = CONSOLE
       THEN [s EXCEPT !.console = Append(@, message),
                      !.written = Append(@, message)]
       ELSE IF oh.mode \in {FILE_APPEND, FILE_OVERWRITE} /\ has_file_path(oh)
       THEN IF opens_for_overwrite(oh)
            THEN [s EXCEPT !.file = <<message>>,
                           !.output_handler.first_write = FALSE,
                           !.written = Append(@, message)]
            ELSE [s EXCEPT !.file = Append(@, message),
                           !.written = Append(@, message)]
       ELSE [s EXCEPT !.raised = "ValueError"]

\* ------------------------------------------------ NormalBoxMaxRatioTracker
\* A ratio min_size / max_size^gamma as <<numerator, denominator>>; -math.inf
\* is <<-1, 0>>, below every ratio with a positive denominator.
NegInf == <<-1, 0>>

RECURSIVE GCD(_, _)
GCD(a, b) == IF b = 0 THEN a ELSE GCD(b, a % b)

\* min_size / pow(max_size, event.gamma), for sizes in units of 1/Unit, in
\* lowest terms.
ratio(min_size, max_size, g) ==
    LET n == min_size * Pow(Unit, g - 1)
        d == Pow(max_size, g)
        c == GCD(IF n < 0 THEN -n ELSE n, d)
    IN <<n \div c, d \div c>>

\* Mutant: a value equal to the maximum counts as a new maximum.
ratio_greater_or_equal(a, b) == a[1] * b[2] >= b[1] * a[2]

\* a > b for two ratios.
ratio_greater(a, b) == a[1] * b[2] > b[1] * a[2]

\* NormalBoxMaxRatioTracker.__init__.  An index or value that may be None is
\* <<>> for None and <<x>> for x.
NormalBoxMaxRatioTracker ==
    [current_max |-> NegInf, current_start_index |-> <<>>,
     current_start_value |-> <<>>, current_finish_index |-> <<>>,
     current_finish_value |-> <<>>]

\* The listener record under which the tracker is registered.
NormalBoxMaxRatioTrackerListener ==
    [event_type |-> AFTER_DETAIL_PLACED, fail_at |-> 0,
     kind |-> "NormalBoxMaxRatioTracker"]

\* The message f'{start_index} - {finish_index}: {start_value} - {finish_value}'
tracker_message(t) ==
    <<t.current_start_index[1], t.current_finish_index[1],
      t.current_start_value[1], t.current_finish_value[1]>>

\* self.current_start_index = None, once output_handler.write has returned
\* and left the engine as s.
close_run(s) ==
    IF s.raised # "none" THEN s
    ELSE [s EXCEPT !.tracker.current_start_index = <<>>]

\* NormalBoxMaxRatioTracker.handle from the test of value on.
track(s, event, value) ==
    LET t == s.tracker
    IN IF ratio_greater(value, t.current_max)
       THEN [s EXCEPT !.tracker =
                 [t EXCEPT !.current_max = value,
                           !.current_finish_index = <<event.last_placed_index>>,
                           !.current_finish_value = <<value>>,
                           !.current_start_index =
                               IF @ = <<>> THEN <<event.last_placed_index>>
                               ELSE @,
                           !.current_start_value =
                               IF t.current_start_index = <<>> THEN <<value>>
                               ELSE @]]
       ELSE IF t.current_start_index # <<>>
       THEN close_run(OutputHandler_write(s, tracker_message(t)))
       ELSE s

\* NormalBoxMaxRatioTracker.handle
NormalBoxMaxRatioTracker_handle(s, event) ==
    LET min_size == Min(height(event.normal_box), width(event.normal_box))
        max_size == Max(height(event.normal_box), width(event.normal_box))
    IN IF max_size = 0 THEN [s EXCEPT !.raised = "ZeroDivisionError"]
       ELSE track(s, event, ratio(min_size, max_size, event.gamma))

\* statistic.handle(event) of listener i, when it does not raise by itself.
handle(s, i, event) ==
    IF s.statistic_listeners[i].kind = "NormalBoxMaxRatioTracker"
    THEN NormalBoxMaxRatioTracker_handle(s, event)
    ELSE s

\* Mutant: a failure of handle is swallowed.
handle_never_raises(s, i) == FALSE

\* statistic.handle(event) of listener i raises: this is its fail_at-th call.
handle_raises(s, i) ==
    Cardinality({k \in 1..Len(s.handled) : s.handled[k].listener = i})
        = s.statistic_listeners[i].fail_at

\* The loop of _notify_statistic_listeners from listener i on: handle is called
\* on each listener whose event type is the event's, until one raises.
RECURSIVE notify_from(_, _, _)
RECURSIVE notify_after(_, _, _)
notify_from(s, event, i) ==
    IF i > Len(s.statistic_listeners) THEN s
    ELSE IF listens_to(s.statistic_listeners[i], event)
    THEN LET s1 == [s EXCEPT !.handled =
                        Append(@, [listener |-> i, event |-> Len(s.events)])]
         IN IF handle_raises(s1, i)
            THEN [s1 EXCEPT !.raised = "ListenerException"]
            ELSE notify_after(handle(s1, i, event), event, i)
    ELSE notify_from(s, event, i + 1)

\* The loop after the call of handle on listener i has left the engine as s: an
\* exception of the listener ends it.
notify_after(s, event, i) ==
    IF s.raised # "none" THEN s ELSE notify_from(s, event, i + 1)

\* _notify_statistic_listeners: events records the event, handled the calls.
_notify_statistic_listeners(s, event) ==
    notify_from([s EXCEPT !.events = Append(@, event)], event, 1)

\* Mutant: the collection is updated whatever the flag says.
tracking_always(s) == TRUE

\* if self.update_placed_details:
tracking(s) == s.update_placed_details

\* Mutant: nothing is removed from the list.
placed_details_keep(s, x) == s

\* placed_details.remove(x): ValueError when x is not in the list.
placed_details_remove(s, x) ==
    IF Contains(s.placed_details, x)
    THEN [s EXCEPT !.placed_details = RemoveFirst(@, x)]
    ELSE [s EXCEPT !.raised = "ValueError"]

\* Mutant: the LRP is read from the head of the list on every call.
_check_if_lrp_none_every_call(s) == [s EXCEPT !.lrp = s.placed_details[1]]

_check_if_lrp_none(s) ==
    IF s.lrp = None THEN [s EXCEPT !.lrp = s.placed_details[1]] ELSE s

\* The stripe's extent along the placement axis.
stripe_extent(st, horizontal) == IF horizontal THEN width(st) ELSE height(st)

\* Mutant: the capacity check closes the stripe on an exact fit too.
stripe_too_short_or_equal(st, horizontal, total_length) ==
    \/ horizontal /\ total_length >= width(st)
    \/ ~horizontal /\ total_length >= height(st)

\* The condition of _check_stripe_size: the stripe cannot take total_length.
stripe_too_short(st, horizontal, total_length) ==
    \/ horizontal /\ total_length > width(st)
    \/ ~horizontal /\ total_length > height(st)

\* Mutant: the closure forgets to count the endpoint.
close_stripe_no_count(s) ==
    [s EXCEPT !.boxes = boxes_add(@, s.stripe), !.stripe = None]

\* The effect of _check_stripe_size when the stripe is too short.
close_stripe(s) ==
    [s EXCEPT !.boxes = boxes_add(@, s.stripe),
              !.stripe = None,
              !.endpoints_placed = @ + 1]

_check_stripe_size(s, d) ==
    IF s.stripe # None
    THEN LET gap == required_gap(s.stripe_first_detail_index, s.gamma)
             total_length == d[1] + gap
         IN IF stripe_too_short(s.stripe, s.is_stripe_horizontal, total_length)
            THEN close_stripe(s)
            ELSE s
    ELSE s

\* Mutant: the chosen box stays in the pool.
_choose_strip_from_box_kept_in_pool(s) ==
    [s EXCEPT !.stripe_from = s.boxes[1].detail_type,
              !.stripe = s.boxes[1],
              !.is_stripe_horizontal = width(s.boxes[1]) >= height(s.boxes[1])]

_choose_strip_from_box(s) ==
    [s EXCEPT !.stripe_from = s.boxes[1].detail_type,
              !.stripe = s.boxes[1],
              !.boxes = RemoveFirst(@, s.boxes[1]),
              !.is_stripe_horizontal = width(s.boxes[1]) >= height(s.boxes[1])]

\* Mutant: the cut tests the LRP's longer side only.
lrp_too_small_long_side_only(l, d, gap) ==
    d[2] + gap > Max(width(l), height(l))

\* The test of _cut_new_strip that raises AlgorithmExecutionException.
lrp_too_small(l, d, gap) ==
    \/ d[2] + gap > Max(width(l), height(l))
    \/ d[1] + gap > Min(width(l), height(l))

\* Mutant: a vertical stripe is taken from the LRP's left edge.
cut_stripe_corners_from_left(l, d, gap) ==
    IF width(l) <= height(l)
    THEN <<l.bottom_left, <<l.top_right[1], l.bottom_left[2] + d[2] + gap>>>>
    ELSE <<l.bottom_left, <<l.bottom_left[1] + d[2] + gap, l.top_right[2]>>>>

\* The corners <<bottom_left, top_right>> of the stripe cut from the LRP l.
cut_stripe_corners(l, d, gap) ==
    IF width(l) <= height(l)
    THEN <<l.bottom_left, <<l.top_right[1], l.bottom_left[2] + d[2] + gap>>>>
    ELSE <<<<l.top_right[1] - d[2] - gap, l.bottom_left[2]>>, l.top_right>>

\* Mutant: the LRP is left whole by the cut.
cut_lrp_corners_whole(l, d, gap) == <<l.bottom_left, l.top_right>>

\* The corners <<bottom_left, top_right>> of the LRP that remains.
cut_lrp_corners(l, d, gap) ==
    IF width(l) <= height(l)
    THEN <<<<l.bottom_left[1], l.bottom_left[2] + d[2] + gap>>, l.top_right>>
    ELSE <<l.bottom_left, <<l.top_right[1] - d[2] - gap, l.top_right[2]>>>>

\* Mutant: every endpoint is numbered 1.
endpoint_name_first(s) == <<ENDPOINT_PREFIX, 1>>

\* f'{self.ENDPOINT_PREFIX}{self.endpoints_placed}'
endpoint_name(s) == <<ENDPOINT_PREFIX, s.endpoints_placed>>

\* Mutant: the cut is made before the size test raises.
_cut_new_strip_then_raise(s, d) ==
    LET gap == required_gap(s.last_placed_index + 1, s.gamma)
        sc == cut_stripe_corners(s.lrp, d, gap)
        lc == cut_lrp_corners(s.lrp, d, gap)
        new_stripe == Detail(sc[1], sc[2], endpoint_name(s),
                             ENDPOINT_TYPE_1_NAME)
        new_lrp == Detail(lc[1], lc[2], <<LRP_PREFIX>>, LRP_NAME)
        s1 == [s EXCEPT !.stripe_from = s.lrp.detail_type,
                        !.is_stripe_horizontal = width(s.lrp) <= height(s.lrp),
                        !.stripe = new_stripe, !.lrp = new_lrp]
    IN IF lrp_too_small(s.lrp, d, gap)
       THEN [s1 EXCEPT !.raised = "AlgorithmExecutionException"]
       ELSE s1

_cut_new_strip(s, d) ==
    LET s1 == [s EXCEPT !.stripe_from = s.lrp.detail_type]
        gap == required_gap(s.last_placed_index + 1, s.gamma)
        l == s.lrp
        sc == cut_stripe_corners(l, d, gap)
        lc == cut_lrp_corners(l, d, gap)
        new_stripe == Detail(sc[1], sc[2], endpoint_name(s),
                             ENDPOINT_TYPE_1_NAME)
        new_lrp == Detail(lc[1], lc[2], <<LRP_PREFIX>>, LRP_NAME)
        s2 == [s1 EXCEPT !.is_stripe_horizontal = width(l) <= height(l)]
        s3 == IF tracking(s)
              THEN LET r == placed_details_remove(s2, l)
                   IN IF r.raised # "none" THEN r
                      ELSE [r EXCEPT !.placed_details =
                                         Append(Append(@, new_stripe), new_lrp)]
              ELSE s2
    IN IF lrp_too_small(l, d, gap)
       THEN [s1 EXCEPT !.raised = "AlgorithmExecutionException"]
       ELSE IF s3.raised # "none" THEN s3
       ELSE [s3 EXCEPT !.stripe = new_stripe, !.lrp = new_lrp]

\* Mutant: a box that takes total_length exactly is passed over.
box_suffices_strictly(total_length, max_box_size) == total_length < max_box_size

\* The test of _choose_strip: the best pool box can take total_length.
box_suffices(total_length, max_box_size) == total_length <= max_box_size

\* Mutant: the stripe-first index runs one ahead.
first_detail_index_one_ahead(s) == s.last_placed_index + 2

\* self.stripe_first_detail_index = self.last_placed_index + 1
first_detail_index(s) == s.last_placed_index + 1

_choose_strip(s, d) ==
    IF s.stripe = None
    THEN LET s1 == [s EXCEPT !.stripe_first_detail_index = first_detail_index(s)]
             max_box_size == IF Len(s1.boxes) > 0
                             THEN Min(width(s1.boxes[1]), height(s1.boxes[1]))
                             ELSE -1
             gap == required_gap(s1.stripe_first_detail_index, s1.gamma)
             total_length == d[2] + gap
         IN IF box_suffices(total_length, max_box_size)
            THEN _choose_strip_from_box(s1)
            ELSE LET s2 == _notify_statistic_listeners(
                               s1, GammaAlgorithmEvent(s1, BEFORE_LRP_CUT, d))
                     s3 == _cut_new_strip(s2, d)
                 IN IF s2.raised # "none" THEN s2
                    ELSE IF s3.raised # "none" THEN s3
                    ELSE _notify_statistic_listeners(
                             s3, GammaAlgorithmEvent(s3, AFTER_LRP_CUT, d))
    ELSE s

\* Mutant: the normal box is typed by the rule of the endpoint.
_get_normal_box_type_like_endpoint(s) ==
    IF s.stripe_from = LRP_NAME \/ s.stripe_from = ENDPOINT_TYPE_1_NAME
    THEN NORMAL_BOX_TYPE_1_NAME
    ELSE NORMAL_BOX_TYPE_2_NAME

_get_normal_box_type(s) ==
    IF s.stripe_from = LRP_NAME THEN NORMAL_BOX_TYPE_1_NAME
    ELSE NORMAL_BOX_TYPE_2_NAME

\* Mutant: the endpoint takes the type its stripe came from.
_get_endpoint_type_of_origin(s) == s.stripe_from

\* Mutant: the endpoint type compares with the wrong endpoint constant.
_get_endpoint_type_wrong_constant(s) ==
    IF s.stripe_from = LRP_NAME \/ s.stripe_from = ENDPOINT_TYPE_2_NAME
    THEN ENDPOINT_TYPE_1_NAME
    ELSE ENDPOINT_TYPE_2_NAME

\* Mutant: only a stripe cut from the LRP gives endpoint_1.
_get_endpoint_type_lrp_only(s) ==
    IF s.stripe_from = LRP_NAME THEN ENDPOINT_TYPE_1_NAME
    ELSE ENDPOINT_TYPE_2_NAME

_get_endpoint_type(s) ==
    IF s.stripe_from = LRP_NAME \/ s.stripe_from = ENDPOINT_TYPE_1_NAME
    THEN ENDPOINT_TYPE_1_NAME
    ELSE ENDPOINT_TYPE_2_NAME

\* The corners <<bottom_left, top_right>> of the three shapes a placement of d
\* cuts the stripe st into.
placed_detail_corners(st, horizontal, d) ==
    IF horizontal
    THEN <<st.bottom_left, <<st.bottom_left[1] + d[1], st.bottom_left[2] + d[2]>>>>
    ELSE <<<<st.top_right[1] - d[2], st.bottom_left[2]>>,
           <<st.top_right[1], st.bottom_left[2] + d[1]>>>>

\* Mutant: the normal box runs to the far end of the stripe.
normal_box_corners_to_stripe_end(st, horizontal, d) ==
    IF horizontal
    THEN <<<<st.bottom_left[1], st.bottom_left[2] + d[2]>>, st.top_right>>
    ELSE <<st.bottom_left, <<st.top_right[1] - d[2], st.top_right[2]>>>>

normal_box_corners(st, horizontal, d) ==
    IF horizontal
    THEN <<<<st.bottom_left[1], st.bottom_left[2] + d[2]>>,
           <<st.bottom_left[1] + d[1], st.top_right[2]>>>>
    ELSE <<st.bottom_left,
           <<st.top_right[1] - d[2], st.bottom_left[2] + d[1]>>>>

\* Mutant: in a vertical stripe the endpoint keeps the stripe's bottom-left
\* corner.
endpoint_corners_keeping_bottom_left(st, horizontal, d) ==
    IF horizontal
    THEN <<<<st.bottom_left[1] + d[1], st.bottom_left[2]>>, st.top_right>>
    ELSE <<st.bottom_left, <<st.top_right[1], st.top_right[2] - d[1]>>>>

endpoint_corners(st, horizontal, d) ==
    IF horizontal
    THEN <<<<st.bottom_left[1] + d[1], st.bottom_left[2]>>, st.top_right>>
    ELSE <<<<st.bottom_left[1], st.bottom_left[2] + d[1]>>, st.top_right>>

\* Mutant: the placement forgets to advance the index.
next_placed_index_not_advanced(s) == s.last_placed_index

\* self.last_placed_index += 1
next_placed_index(s) == s.last_placed_index + 1

_place_detail_in_stripe(s, d) ==
    LET normal_box_type == _get_normal_box_type(s)
        endpoint_type == _get_endpoint_type(s)
        s1 == [s EXCEPT !.last_placed_index = next_placed_index(s)]
        st == s.stripe
        pc == placed_detail_corners(st, s.is_stripe_horizontal, d)
        nc == normal_box_corners(st, s.is_stripe_horizontal, d)
        ec == endpoint_corners(st, s.is_stripe_horizontal, d)
        placed_detail == Detail(pc[1], pc[2],
                                <<DETAIL_PREFIX, s1.last_placed_index>>, DETAIL_NAME)
        normal_box == Detail(nc[1], nc[2],
                             <<NORMAL_BOX_PREFIX, s1.last_placed_index>>,
                             normal_box_type)
        endpoint == Detail(ec[1], ec[2], endpoint_name(s),
                           endpoint_type)
        s2 == IF tracking(s)
              THEN LET r == placed_details_remove(s1, st)
                   IN IF r.raised # "none" THEN r
                      ELSE [r EXCEPT !.placed_details =
                                Append(Append(Append(@, placed_detail), normal_box),
                                       endpoint)]
              ELSE s1
        s3 == [s2 EXCEPT !.stripe = endpoint, !.boxes = boxes_add(@, normal_box)]
    IN IF s2.raised # "none" THEN s2
       ELSE _notify_statistic_listeners(
                s3, GammaAlgorithmAfterDetailPlacedEvent(
                        s3, d, placed_detail, normal_box, endpoint))

\* The engine after the first three steps of place_next, before the placement.
before_placement(s, d) ==
    _choose_strip(_check_stripe_size(_check_if_lrp_none(s), d), d)

place_next(s, d) ==
    LET s3 == before_placement(s, d)
    IN IF s3.raised # "none" THEN s3 ELSE _place_detail_in_stripe(s3, d)

\* ------------------------------------------------------------ specification
\* The listener lists a run may be constructed with: listeners of all four
\* declared event types, registered in mixed order, one of which may raise.
Registries ==
    { <<Listener(AFTER_DETAIL_PLACED, 0), Listener(BEFORE_LRP_CUT, 0),
        Listener(ALGORITHM_END, 0), Listener(AFTER_LRP_CUT, 0),
        Listener(AFTER_DETAIL_PLACED, 0), Listener(BEFORE_LRP_CUT, 0)>>,
      <<Listener(BEFORE_LRP_CUT, 0), Listener(BEFORE_LRP_CUT, 1),
        Listener(BEFORE_LRP_CUT, 0), Listener(AFTER_DETAIL_PLACED, 0)>>,
      <<Listener(BEFORE_LRP_CUT, 0), Listener(AFTER_DETAIL_PLACED, 0),
        Listener(BEFORE_LRP_CUT, 2), Listener(BEFORE_LRP_CUT, 0)>>,
      <<Listener(AFTER_LRP_CUT, 0), Listener(AFTER_LRP_CUT, 2),
        Listener(AFTER_DETAIL_PLACED, 0), Listener(AFTER_LRP_CUT, 0)>>,
      <<Listener(AFTER_DETAIL_PLACED, 0), Listener(AFTER_DETAIL_PLACED, 3),
        Listener(ALGORITHM_END, 0), Listener(AFTER_DETAIL_PLACED, 0)>> }

\* GammaAlgorithm.__init__, with the driver's list holding only the sheet.
Construct(gammas, n0s, flags, sheets, registries, handlers, files) ==
    /\ gamma \in gammas
    /\ n0 \in n0s
    /\ update_placed_details \in flags
    /\ statistic_listeners \in registries
    /\ boxes = <<>>
    /\ lrp = None
    /\ stripe = None
    /\ stripe_first_detail_index = n0 - 1
    /\ is_stripe_horizontal = FALSE
    /\ last_placed_index = n0 - 1
    /\ endpoints_placed = 1
    /\ stripe_from = NoneStr
    /\ \E sheet \in sheets :
           base_detail = Detail(<<0, 0>>, sheet, <<LRP_PREFIX>>, LRP_NAME)
    /\ placed_details = <<base_detail>>
    /\ detail = <<>>
    /\ events = <<>>
    /\ handled = <<>>
    /\ tracker = NormalBoxMaxRatioTracker
    /\ output_handler \in handlers
    /\ file \in files
    /\ console = <<>>
    /\ written = <<>>
    /\ raised = "none"

\* A run constructed without statistic listeners (the constructor's default).
Init ==
    Construct(Gammas, N0s, BOOLEAN, Sheets, {<<>>},
              {OutputHandler(CONSOLE, NoneStr)}, {<<>>})

\* A run constructed with a list of statistic listeners.
InitListeners ==
    Construct({1}, {2}, {TRUE}, {<<7200, 10800>>, <<3600, 3600>>}, Registries,
              {OutputHandler(CONSOLE, NoneStr)}, {<<>>})

\* One call place_next(d, placed_details) by the driver, which stops at the
\* first exception and after MaxPlaced details.
PlaceNext(d) ==
    /\ raised = "none"
    /\ last_placed_index - (n0 - 1) < MaxPlaced
    /\ LET r == place_next(Self, d)
       IN /\ boxes' = r.boxes
          /\ lrp' = r.lrp
          /\ stripe' = r.stripe
          /\ stripe_first_detail_index' = r.stripe_first_detail_index
          /\ is_stripe_horizontal' = r.is_stripe_horizontal
          /\ last_placed_index' = r.last_placed_index
          /\ endpoints_placed' = r.endpoints_placed
          /\ stripe_from' = r.stripe_from
          /\ placed_details' = r.placed_details
          /\ events' = r.events
          /\ handled' = r.handled
          /\ tracker' = r.tracker
          /\ output_handler' = r.output_handler
          /\ file' = r.file
          /\ console' = r.console
          /\ written' = r.written
          /\ raised' = r.raised
    /\ detail' = d
    /\ UNCHANGED <<gamma, n0, update_placed_details, statistic_listeners,
                   base_detail>>

Next == \E d \in Sizes : PlaceNext(d)

Spec == Init /\ [][Next]_vars

SpecListeners == InitListeners /\ [][Next]_vars

\* A line that the file at file_path holds before the run.
OldLine == <<0, 0, <<0, 1>>, <<0, 1>>>>

\* A run with a NormalBoxMaxRatioTracker registered between two other
\* listeners, its output handler in one of the three modes or without the
\* path that a file mode needs.
InitTracker ==
    Construct(Gammas, {1}, {TRUE}, {<<7200, 10800>>, <<3600, 3600>>},
              {<<Listener(BEFORE_LRP_CUT, 0), NormalBoxMaxRatioTrackerListener,
                 Listener(AFTER_DETAIL_PLACED, 0)>>},
              {OutputHandler(CONSOLE, NoneStr),
               OutputHandler(FILE_APPEND, "max_normal_box.txt"),
               OutputHandler(FILE_OVERWRITE, "max_normal_box.txt"),
               OutputHandler(FILE_APPEND, NoneStr)},
              {<<>>, <<OldLine>>})

SpecTracker == InitTracker /\ [][Next]_vars

\* An output handler used on its own: any mode, a known one or not, with or
\* without a path, on a file that is empty or holds a line; the caller stops at
\* the first exception and after MaxWrites messages.
MaxWrites == 3

Messages == {<<1, 1, <<1, 2>>, <<1, 2>>>>, <<2, 3, <<2, 3>>, <<3, 4>>>>}

InitOutput ==
    Construct({1}, {1}, {FALSE}, {<<3600, 3600>>}, {<<>>},
              {OutputHandler(mode, file_path) :
                   mode \in {CONSOLE, FILE_APPEND, FILE_OVERWRITE, "file"},
                   file_path \in {NoneStr, "", "max_normal_box.txt"}},
              {<<>>, <<OldLine>>})

\* One call output_handler.write(message).
Write(message) ==
    /\ raised = "none"
    /\ Len(written) < MaxWrites
    /\ LET r == OutputHandler_write(Self, message)
       IN /\ output_handler' = r.output_handler
          /\ file' = r.file
          /\ console' = r.console
          /\ written' = r.written
          /\ raised' = r.raised
    /\ UNCHANGED <<gamma, n0, update_placed_details, statistic_listeners, boxes,
                   lrp, stripe, stripe_first_detail_index, is_stripe_horizontal,
                   last_placed_index, endpoints_placed, stripe_from,
                   placed_details, base_detail, detail, events, handled,
                   tracker>>

NextOutput == \E message \in Messages : Write(message)

SpecOutput == InitOutput /\ [][NextOutput]_vars

\* ------------------------------------------------------------ claim helpers
Area(d) == width(d) * height(d)

RECURSIVE SumArea(_)
SumArea(seq) == IF seq = <<>> THEN 0 ELSE Area(Head(seq)) + SumArea(Tail(seq))

\* Two rectangles share a region of positive area.
Overlap(a, b) ==
    /\ Max(a.bottom_left[1], b.bottom_left[1]) < Min(a.top_right[1], b.top_right[1])
    /\ Max(a.bottom_left[2], b.bottom_left[2]) < Min(a.top_right[2], b.top_right[2])

PositiveSize(d) == width(d) > 0 /\ height(d) > 0

EndpointTypes == {ENDPOINT_TYPE_1_NAME, ENDPOINT_TYPE_2_NAME}
NormalBoxTypes == {NORMAL_BOX_TYPE_1_NAME, NORMAL_BOX_TYPE_2_NAME}

SeqToSet(seq) == {seq[i] : i \in 1..Len(seq)}

\* ------------------------------------------------------------------ claims

\* C1 (as stated): with full tracking, after successful calls no two Details of
\* the placed collection intersect in positive area.
C1_NonOverlap ==
    (update_placed_details /\ raised = "none") =>
        \A i, j \in 1..Len(placed_details) :
            i < j => ~Overlap(placed_details[i], placed_details[j])

\* C2: with full tracking, the areas of the Details in the placed collection sum
\* to the area of the sheet after every successful call, and also at the moment
\* the after-cut and the after-placement events are dispatched.
C2_AreaConservation ==
    update_placed_details =>
        /\ raised = "none" => SumArea(placed_details) = Area(base_detail)
        /\ \A k \in 1..Len(events) :
               events[k].type \in {AFTER_LRP_CUT, AFTER_DETAIL_PLACED} =>
                   SumArea(events[k].placed_details) = Area(base_detail)

\* A tracked run with three placements, one of them into a pool box.
C2_Witness ==
    /\ update_placed_details
    /\ raised = "none"
    /\ last_placed_index = n0 + 2
    /\ stripe_from \in NormalBoxTypes \cup EndpointTypes
    /\ \E k \in 1..Len(events) : events[k].type = AFTER_LRP_CUT

\* C3 (as stated): after successful calls the LRP, the open stripe, every pool
\* box and every Detail produced has positive width and height.
C3_PositiveDimensions ==
    raised = "none" =>
        /\ lrp # None => PositiveSize(lrp)
        /\ stripe # None => PositiveSize(stripe)
        /\ \A i \in 1..Len(boxes) : PositiveSize(boxes[i])
        /\ \A i \in 1..Len(placed_details) : PositiveSize(placed_details[i])
        /\ \A k \in 1..Len(events) :
               events[k].type = AFTER_DETAIL_PLACED =>
                   /\ PositiveSize(events[k].placed_detail)
                   /\ PositiveSize(events[k].normal_box)
                   /\ PositiveSize(events[k].endpoint)

\* C4: a call that returns normally raises last_placed_index by exactly 1, a
\* failed call leaves it alone, the steps before the placement (closure, pool
\* acquisition, LRP cut) leave it alone, and the first placed detail is S<n0>.
C4_MonotonicIndex ==
    [][/\ raised' = "none" => last_placed_index' = last_placed_index + 1
       /\ raised' # "none" => last_placed_index' = last_placed_index
       /\ before_placement(Self, detail').last_placed_index = last_placed_index
       /\ \A k \in (Len(events) + 1)..Len(events') :
              events'[k].type # AFTER_DETAIL_PLACED =>
                  events'[k].last_placed_index = last_placed_index
       /\ (last_placed_index = n0 - 1 /\ raised' = "none") =>
              /\ last_placed_index' = n0
              /\ events'[Len(events')].placed_detail.name = <<DETAIL_PREFIX, n0>>
      ]_vars

\* Three placements with a stripe closure and two LRP cuts along the way.
C4_Witness ==
    /\ raised = "none"
    /\ last_placed_index = n0 + 2
    /\ endpoints_placed >= 2
    /\ Cardinality({k \in 1..Len(events) : events[k].type = AFTER_LRP_CUT}) >= 2

\* C5: place_next raises the infeasibility exception exactly when, after the
\* capacity check, no stripe is open, no pool box has a minimum side of at least
\* height + gap(last_placed_index + 1), and the LRP is too small for the cut.
C5_PackingInfeasible ==
    [][LET d == detail'
           l == IF lrp = None THEN base_detail ELSE lrp
           closed == /\ stripe # None
                     /\ d[1] + required_gap(stripe_first_detail_index, gamma)
                            > stripe_extent(stripe, is_stripe_horizontal)
           pool == SeqToSet(boxes) \cup (IF closed THEN {stripe} ELSE {})
           gap == required_gap(last_placed_index + 1, gamma)
       IN /\ raised' = "AlgorithmExecutionException" <=>
                 /\ stripe = None \/ closed
                 /\ \A b \in pool : Min(width(b), height(b)) < d[2] + gap
                 /\ \/ d[2] + gap > Max(width(l), height(l))
                    \/ d[1] + gap > Min(width(l), height(l))
          /\ raised' \in {"none", "AlgorithmExecutionException"}
      ]_vars

\* A call failed although the pool was not empty.
C5_Witness ==
    /\ raised = "AlgorithmExecutionException"
    /\ Len(boxes) > 0
    /\ stripe = None

\* C6: a placement into a stripe of type endpoint_2, or into a normal box cut
\* from such a stripe (normal_box_2), yields an endpoint of type endpoint_2 and
\* a normal box of type normal_box_2, so no descendant of an endpoint_2 stripe
\* is ever endpoint_1.
C6_ProvenanceLineage ==
    [][raised' = "none" =>
           LET receiving == before_placement(Self, detail').stripe
               e == events'[Len(events')]
           IN receiving.detail_type \in {ENDPOINT_TYPE_2_NAME, NORMAL_BOX_TYPE_2_NAME} =>
                  /\ stripe'.detail_type = ENDPOINT_TYPE_2_NAME
                  /\ e.endpoint.detail_type = ENDPOINT_TYPE_2_NAME
                  /\ e.normal_box.detail_type = NORMAL_BOX_TYPE_2_NAME
      ]_vars

\* An endpoint_2 stripe was closed, pooled and re-acquired, and the placement
\* into it has been made.
C6_Witness ==
    /\ raised = "none"
    /\ stripe_from = ENDPOINT_TYPE_2_NAME
    /\ stripe # None

\* C7: the endpoint of a placement is endpoint_1 if the receiving stripe's
\* provenance is the LRP or the stripe's own type was endpoint_1, endpoint_2
\* otherwise; a stripe acquired from a pooled normal box yields endpoint_2.
C7_EndpointTyping ==
    [][raised' = "none" =>
           LET b == before_placement(Self, detail')
               e == events'[Len(events')]
           IN /\ e.type = AFTER_DETAIL_PLACED
              /\ e.endpoint = stripe'
              /\ e.endpoint.detail_type =
                     IF \/ b.stripe_from = LRP_NAME
                        \/ b.stripe.detail_type = ENDPOINT_TYPE_1_NAME
                     THEN ENDPOINT_TYPE_1_NAME
                     ELSE ENDPOINT_TYPE_2_NAME
              /\ b.stripe.detail_type \in NormalBoxTypes =>
                     e.endpoint.detail_type = ENDPOINT_TYPE_2_NAME
      ]_vars

\* Placements have been made into a pooled normal box (endpoint_2) and into a
\* re-acquired endpoint_1 stripe (endpoint_1).
C7_Witness ==
    /\ raised = "none"
    /\ \E k \in 1..Len(events) :
           /\ events[k].type = AFTER_DETAIL_PLACED
           /\ events[k].stripe_from \in NormalBoxTypes
           /\ events[k].endpoint.detail_type = ENDPOINT_TYPE_2_NAME
    /\ \E k \in 1..Len(events) :
           /\ events[k].type = AFTER_DETAIL_PLACED
           /\ events[k].stripe_from = ENDPOINT_TYPE_1_NAME
           /\ events[k].endpoint.detail_type = ENDPOINT_TYPE_1_NAME

\* C8: the normal box of a placement is normal_box_1 exactly when the receiving
\* stripe was cut from the LRP and has not been through the pool since: a call
\* that cuts gives normal_box_1, a call that takes a pool box gives
\* normal_box_2, a call that keeps the open stripe repeats the previous type.
C8_NormalBoxTyping ==
    [][raised' = "none" =>
           LET kept == stripe # None /\ endpoints_placed' = endpoints_placed
               cut == \E k \in (Len(events) + 1)..Len(events') :
                          events'[k].type = AFTER_LRP_CUT
               nb == events'[Len(events')].normal_box
           IN /\ nb.detail_type =
                     IF cut THEN NORMAL_BOX_TYPE_1_NAME
                     ELSE IF kept THEN events[Len(events)].normal_box.detail_type
                     ELSE NORMAL_BOX_TYPE_2_NAME
              /\ nb.detail_type = NORMAL_BOX_TYPE_1_NAME <=> stripe_from' = LRP_NAME
              /\ ~(cut /\ kept)
      ]_vars

\* A stripe cut from the LRP was closed, re-acquired from the pool and used: the
\* normal box it gave is normal_box_2.
C8_Witness ==
    /\ raised = "none"
    /\ stripe_from = ENDPOINT_TYPE_1_NAME
    /\ events[Len(events)].normal_box.detail_type = NORMAL_BOX_TYPE_2_NAME

\* C9 (as stated): the Box Pool never holds a Detail of type endpoint_1 or
\* endpoint_2.
C9_EndpointsNeverPooled ==
    \A i \in 1..Len(boxes) : boxes[i].detail_type \notin EndpointTypes

\* C9 (amended): the endpoint a placement produces becomes the open stripe and
\* is not put into the pool; an endpoint-typed Detail enters the pool only as
\* the open stripe closed by the capacity check of that call.
C9_EndpointsPooledOnlyByClosure ==
    [][/\ \A i \in 1..Len(boxes') :
              (boxes'[i].detail_type \in EndpointTypes /\ ~Contains(boxes, boxes'[i])) =>
                  /\ boxes'[i] = stripe
                  /\ endpoints_placed' = endpoints_placed + 1
       /\ raised' = "none" =>
              /\ stripe' = events'[Len(events')].endpoint
              /\ stripe'.detail_type \in EndpointTypes
              /\ ~Contains(boxes', stripe')
      ]_vars

\* A closed stripe of endpoint type lies in the pool next to a normal box.
C9_Witness ==
    /\ raised = "none"
    /\ \E i \in 1..Len(boxes) : boxes[i].detail_type \in EndpointTypes
    /\ \E i \in 1..Len(boxes) : boxes[i].detail_type \in NormalBoxTypes

\* C10: with a stripe open at the start of a call, the stripe is closed iff
\* width + (1/stripe_first_detail_index)^gamma is strictly greater than the
\* stripe's extent along the placement axis; closing puts the unchanged stripe
\* into the pool, clears the stripe, adds 1 to endpoints_placed and emits no
\* event; otherwise the detail goes into the same stripe and the stripe-first
\* index, the orientation and the provenance stay as they were.
C10_CapacityCheck ==
    [][stripe # None =>
           LET d == detail'
               over == d[1] + required_gap(stripe_first_detail_index, gamma)
                           > (IF is_stripe_horizontal THEN width(stripe)
                              ELSE height(stripe))
               m == _check_stripe_size(Self, d)
           IN /\ m.stripe = None <=> over
              /\ over =>
                     /\ Contains(m.boxes, stripe)
                     /\ Len(m.boxes) = Len(boxes) + 1
                     /\ \A i \in 1..Len(boxes) : Contains(m.boxes, boxes[i])
                     /\ m.endpoints_placed = endpoints_placed + 1
                     /\ m.events = events
                     /\ endpoints_placed' = endpoints_placed + 1
              /\ ~over =>
                     /\ m = Self
                     /\ before_placement(Self, d).stripe = stripe
                     /\ raised' = "none"
                     /\ endpoints_placed' = endpoints_placed
                     /\ stripe_first_detail_index' = stripe_first_detail_index
                     /\ is_stripe_horizontal' = is_stripe_horizontal
                     /\ stripe_from' = stripe_from
      ]_vars

\* Both cases have happened: a stripe took a second detail that filled it to
\* the gap exactly, and the next call closed it.
C10_Witness ==
    /\ raised = "none"
    /\ endpoints_placed = 2
    /\ \E i \in 1..Len(boxes) :
           /\ boxes[i].detail_type \in EndpointTypes
           /\ boxes[i].name = <<ENDPOINT_PREFIX, 1>>
    /\ \E k \in 2..Len(events) :
           /\ events[k].type = AFTER_DETAIL_PLACED
           /\ events[k - 1].type = AFTER_DETAIL_PLACED
           /\ events[k].stripe_first_detail_index < events[k].last_placed_index

\* The engine after the first two steps of place_next(d): LRP initialised and
\* the capacity check done.
AfterCheck(d) == _check_stripe_size(_check_if_lrp_none(Self), d)

\* The events emitted by the step.
NewEvents == SubSeq(events', Len(events) + 1, Len(events'))

MinSide(b) == Min(width(b), height(b))

\* The largest min(width, height) in the pool; -1 for an empty pool.
MaxMinSide(bs) ==
    IF Len(bs) = 0 THEN -1
    ELSE CHOOSE m \in {MinSide(bs[i]) : i \in 1..Len(bs)} :
             \A i \in 1..Len(bs) : MinSide(bs[i]) <= m

\* C11: when no stripe is open after the capacity check, the stripe-first index
\* becomes last_placed_index + 1, and a pool box is taken iff
\* height + (1/stripe-first index)^gamma <= the largest min(width, height) in
\* the pool (-1 for an empty pool); the taken box becomes the stripe, horizontal
\* iff its width >= its height, and no cut is attempted; otherwise a cut of the
\* LRP is attempted (before-cut event), the pool being left as it is even when
\* it is not empty.
C11_StripeAcquisition ==
    [][LET d == detail'
           c == AfterCheck(d)
           a == before_placement(Self, d)
           take == d[2] + Unit \div Pow(last_placed_index + 1, gamma)
                       <= MaxMinSide(c.boxes)
       IN c.stripe = None =>
              /\ stripe_first_detail_index' = last_placed_index + 1
              /\ take =>
                     /\ Contains(c.boxes, a.stripe)
                     /\ a.is_stripe_horizontal
                            = (width(a.stripe) >= height(a.stripe))
                     /\ a.events = events
                     /\ a.lrp = c.lrp
                     /\ is_stripe_horizontal' = a.is_stripe_horizontal
              /\ ~take =>
                     /\ NewEvents # <<>>
                     /\ NewEvents[1].type = BEFORE_LRP_CUT
                     /\ a.boxes = c.boxes
                     /\ a.raised = "none" =>
                            /\ ~Contains(c.boxes, a.stripe)
                            /\ a.stripe.detail_type = ENDPOINT_TYPE_1_NAME
      ]_vars

\* The last call took its stripe from the pool, and an earlier call cut the
\* LRP although the pool already held a box.
C11_Witness ==
    /\ raised = "none"
    /\ stripe # None
    /\ stripe_from \in NormalBoxTypes
    /\ stripe_first_detail_index = last_placed_index
    /\ \E k \in 2..Len(events) : events[k].type = BEFORE_LRP_CUT

\* C12: a box taken from the pool has a min(width, height) at least that of
\* every other box in the pool at that moment, and exactly that box leaves the
\* pool; with an empty pool the call raises nothing from the pool and goes on
\* to the cut of the LRP.
C12_PoolPriority ==
    [][LET d == detail'
           c == AfterCheck(d)
           a == before_placement(Self, d)
       IN c.stripe = None =>
              /\ Len(a.boxes) # Len(c.boxes) =>
                     /\ Contains(c.boxes, a.stripe)
                     /\ \A i \in 1..Len(c.boxes) :
                            MinSide(a.stripe) >= MinSide(c.boxes[i])
                     /\ Len(a.boxes) = Len(c.boxes) - 1
                     /\ ~Contains(a.boxes, a.stripe)
                     /\ \A i \in 1..Len(c.boxes) :
                            c.boxes[i] # a.stripe => Contains(a.boxes, c.boxes[i])
              /\ Len(c.boxes) = 0 =>
                     /\ NewEvents # <<>>
                     /\ NewEvents[1].type = BEFORE_LRP_CUT
                     /\ raised' \in {"none", "AlgorithmExecutionException"}
      ]_vars

\* The stripe an after-placement event's three shapes were made from.
StripeOf(ev) ==
    [bottom_left |-> IF ev.is_stripe_horizontal
                     THEN ev.placed_detail.bottom_left
                     ELSE ev.normal_box.bottom_left,
     top_right |-> ev.endpoint.top_right]

\* The last call chose its stripe among at least two pool boxes of different
\* min(width, height).
C12_Witness ==
    /\ raised = "none"
    /\ stripe # None
    /\ stripe_from \in NormalBoxTypes \cup EndpointTypes
    /\ stripe_first_detail_index = last_placed_index
    /\ events[Len(events)].type = AFTER_DETAIL_PLACED
    /\ \E i \in 1..Len(boxes) :
           /\ boxes[i] # events[Len(events)].normal_box
           /\ MinSide(boxes[i]) < MinSide(StripeOf(events[Len(events)]))

\* Rectangle a lies inside rectangle b.
Inside(a, b) ==
    /\ b.bottom_left[1] <= a.bottom_left[1] /\ a.top_right[1] <= b.top_right[1]
    /\ b.bottom_left[2] <= a.bottom_left[2] /\ a.top_right[2] <= b.top_right[2]

\* C13: after a successful cut the new stripe and the new LRP lie inside the
\* old LRP, do not overlap and have areas summing to the old LRP's area; the
\* stripe spans the old LRP's full shorter side and is
\* height + gap(last_placed_index + 1) thick along the longer side; the stripe
\* is horizontal iff LRP.width <= LRP.height; the stripe has type endpoint_1 and
\* the new LRP type lrp.
C13_CutGeometry ==
    [][\A k \in 1..Len(NewEvents) :
           NewEvents[k].type = AFTER_LRP_CUT =>
               LET d == detail'
                   old == AfterCheck(d).lrp
                   new_stripe == NewEvents[k].stripe
                   new_lrp == NewEvents[k].lrp
                   thickness == d[2] + Unit \div Pow(last_placed_index + 1, gamma)
                   horizontal == NewEvents[k].is_stripe_horizontal
               IN /\ Inside(new_stripe, old) /\ Inside(new_lrp, old)
                  /\ ~Overlap(new_stripe, new_lrp)
                  /\ Area(new_stripe) + Area(new_lrp) = Area(old)
                  /\ horizontal <=> width(old) <= height(old)
                  /\ horizontal =>
                         /\ width(new_stripe) = width(old)
                         /\ height(new_stripe) = thickness
                  /\ ~horizontal =>
                         /\ height(new_stripe) = height(old)
                         /\ width(new_stripe) = thickness
                  /\ new_stripe.detail_type = ENDPOINT_TYPE_1_NAME
                  /\ new_lrp.detail_type = LRP_NAME
                  /\ lrp' = new_lrp
                  /\ is_stripe_horizontal' = horizontal
      ]_vars

\* Cuts of both orientations have succeeded, one of them from an LRP that an
\* earlier cut had already reduced.
C13_Witness ==
    /\ raised = "none"
    /\ \E j, k \in 1..Len(events) :
           /\ j < k
           /\ events[j].type = AFTER_LRP_CUT
           /\ events[k].type = AFTER_LRP_CUT
           /\ events[j].is_stripe_horizontal # events[k].is_stripe_horizontal

\* The three rectangles lie inside st, do not overlap one another and have
\* areas summing to the area of st.
Partition(st, r1, r2, r3) ==
    /\ Inside(r1, st) /\ Inside(r2, st) /\ Inside(r3, st)
    /\ ~Overlap(r1, r2) /\ ~Overlap(r1, r3) /\ ~Overlap(r2, r3)
    /\ Area(r1) + Area(r2) + Area(r3) = Area(st)

\* The corners <<bl.x, bl.y, tr.x, tr.y>> of a rectangle.
Corners(r) == <<r.bottom_left[1], r.bottom_left[2], r.top_right[1], r.top_right[2]>>

\* C14: a placement of (w, h) into a horizontal stripe with corners bl and tr
\* makes the placed detail [bl.x, bl.x+w] x [bl.y, bl.y+h], the normal box
\* [bl.x, bl.x+w] x [bl.y+h, tr.y] and the endpoint [bl.x+w, tr.x] x [bl.y, tr.y],
\* and these three rectangles exactly partition the stripe.
C14_HorizontalGeometry ==
    [][\A k \in 1..Len(NewEvents) :
           (/\ NewEvents[k].type = AFTER_DETAIL_PLACED
            /\ before_placement(Self, detail').is_stripe_horizontal) =>
               LET d == detail'
                   st == before_placement(Self, d).stripe
                   bl == st.bottom_left
                   tr == st.top_right
                   ev == NewEvents[k]
               IN /\ Corners(ev.placed_detail)
                         = <<bl[1], bl[2], bl[1] + d[1], bl[2] + d[2]>>
                  /\ Corners(ev.normal_box)
                         = <<bl[1], bl[2] + d[2], bl[1] + d[1], tr[2]>>
                  /\ Corners(ev.endpoint) = <<bl[1] + d[1], bl[2], tr[1], tr[2]>>
                  /\ Partition(st, ev.placed_detail, ev.normal_box, ev.endpoint)
      ]_vars

\* C15 as stated: a placement into a vertical stripe puts the placed detail's
\* top-right corner on the stripe's top-right corner, and the endpoint keeps
\* the stripe's bottom-left corner.
C15_VerticalAnchoredTopRight ==
    [][\A k \in 1..Len(NewEvents) :
           (/\ NewEvents[k].type = AFTER_DETAIL_PLACED
            /\ ~before_placement(Self, detail').is_stripe_horizontal) =>
               LET st == before_placement(Self, detail').stripe
                   ev == NewEvents[k]
               IN /\ ev.placed_detail.top_right = st.top_right
                  /\ ev.endpoint.bottom_left = st.bottom_left
      ]_vars

\* C15 amended: a placement of (w, h) into a vertical stripe with corners bl and
\* tr is the transpose of the horizontal one anchored at the stripe's
\* bottom-right corner and growing upward: the placed detail is
\* [tr.x-h, tr.x] x [bl.y, bl.y+w], the normal box [bl.x, tr.x-h] x [bl.y, bl.y+w]
\* and the endpoint [bl.x, tr.x] x [bl.y+w, tr.y]; the endpoint keeps the
\* stripe's top-right corner.
C15_VerticalGeometry ==
    [][\A k \in 1..Len(NewEvents) :
           (/\ NewEvents[k].type = AFTER_DETAIL_PLACED
            /\ ~before_placement(Self, detail').is_stripe_horizontal) =>
               LET d == detail'
                   st == before_placement(Self, d).stripe
                   bl == st.bottom_left
                   tr == st.top_right
                   ev == NewEvents[k]
               IN /\ Corners(ev.placed_detail)
                         = <<tr[1] - d[2], bl[2], tr[1], bl[2] + d[1]>>
                  /\ Corners(ev.normal_box)
                         = <<bl[1], bl[2], tr[1] - d[2], bl[2] + d[1]>>
                  /\ Corners(ev.endpoint) = <<bl[1], bl[2] + d[1], tr[1], tr[2]>>
                  /\ ev.endpoint.top_right = st.top_right
                  /\ stripe' = ev.endpoint
      ]_vars

\* Two details stand in one vertical stripe, the second above the first.
C15_Witness ==
    /\ raised = "none"
    /\ ~is_stripe_horizontal
    /\ \E j, k \in 1..Len(events) :
           /\ j < k
           /\ events[j].type = AFTER_DETAIL_PLACED
           /\ events[k].type = AFTER_DETAIL_PLACED
           /\ ~events[j].is_stripe_horizontal
           /\ ~events[k].is_stripe_horizontal
           /\ events[j].stripe_first_detail_index
                  = events[k].stripe_first_detail_index
           /\ events[k].placed_detail.bottom_left[2]
                  = events[j].placed_detail.top_right[2]

\* The event types of a sequence of events.
TypesOf(evs) == [k \in 1..Len(evs) |-> evs[k].type]

\* The number of events of a type in a sequence of events.
CountType(evs, type) == Cardinality({k \in 1..Len(evs) : evs[k].type = type})

\* C16: one place_next call emits exactly [after-placement] when no LRP cut
\* happens, [before-cut, after-cut, after-placement] when a cut succeeds, and
\* [before-cut] alone when the cut fails with AlgorithmExecutionException; over
\* a run every after-cut is immediately preceded by a before-cut and
\* immediately followed by an after-placement, and the number of
\* after-placement events is last_placed_index - (n0 - 1).
C16_EventProtocol ==
    /\ [][LET d == detail'
              c == AfterCheck(d)
              gap == Unit \div Pow(last_placed_index + 1, gamma)
              cut == /\ c.stripe = None
                     /\ d[2] + gap > MaxMinSide(c.boxes)
              fails == \/ d[2] + gap > Max(width(c.lrp), height(c.lrp))
                       \/ d[1] + gap > Min(width(c.lrp), height(c.lrp))
          IN /\ ~cut =>
                    /\ TypesOf(NewEvents) = <<AFTER_DETAIL_PLACED>>
                    /\ raised' = "none"
             /\ (cut /\ ~fails) =>
                    /\ TypesOf(NewEvents)
                           = <<BEFORE_LRP_CUT, AFTER_LRP_CUT, AFTER_DETAIL_PLACED>>
                    /\ raised' = "none"
             /\ (cut /\ fails) =>
                    /\ TypesOf(NewEvents) = <<BEFORE_LRP_CUT>>
                    /\ raised' = "AlgorithmExecutionException"
         ]_vars
    /\ [](/\ \A k \in 1..Len(events) :
                 events[k].type = AFTER_LRP_CUT =>
                     /\ k > 1 /\ k < Len(events)
                     /\ events[k - 1].type = BEFORE_LRP_CUT
                     /\ events[k + 1].type = AFTER_DETAIL_PLACED
          /\ CountType(events, AFTER_DETAIL_PLACED) = last_placed_index - (n0 - 1))

\* A run in which a call placed without a cut, a call cut and placed, and the
\* last call failed in the cut.
C16_Witness ==
    /\ raised = "AlgorithmExecutionException"
    /\ events[Len(events)].type = BEFORE_LRP_CUT
    /\ \E k \in 2..Len(events) :
           /\ events[k].type = AFTER_DETAIL_PLACED
           /\ events[k - 1].type = AFTER_DETAIL_PLACED
    /\ \E k \in 2..Len(events) :
           /\ events[k].type = AFTER_DETAIL_PLACED
           /\ events[k - 1].type = AFTER_LRP_CUT

\* The listeners handle was called on for event number e, in call order.
RECURSIVE HandledFor(_, _)
HandledFor(h, e) ==
    IF h = <<>> THEN <<>>
    ELSE IF Head(h).event = e THEN <<Head(h).listener>> \o HandledFor(Tail(h), e)
    ELSE HandledFor(Tail(h), e)

\* The registered listeners from position i on whose declared event type is
\* the given one, in registration order.
RECURSIVE Interested(_, _)
Interested(type, i) ==
    IF i > Len(statistic_listeners) THEN <<>>
    ELSE IF statistic_listeners[i].event_type = type
    THEN <<i>> \o Interested(type, i + 1)
    ELSE Interested(type, i + 1)

IsPrefix(p, q) == Len(p) <= Len(q) /\ p = SubSeq(q, 1, Len(p))

\* The engine has emitted no algorithm-end event, and handle calls are logged
\* in the order of the events.
NoEndEventAndInOrder ==
    /\ \A e \in 1..Len(events) : events[e].type # ALGORITHM_END
    /\ \A k \in 1..Len(handled) :
           /\ handled[k].event \in 1..Len(events)
           /\ k > 1 => handled[k - 1].event <= handled[k].event

\* C17 as stated: for every emitted event, handle is called exactly once on each
\* registered listener whose declared event type is the event's type, in
\* registration order, and on no other listener; no algorithm-end event is
\* emitted.
C17_DispatchToEveryInterested ==
    /\ NoEndEventAndInOrder
    /\ \A e \in 1..Len(events) :
           HandledFor(handled, e) = Interested(events[e].type, 1)

\* C17 amended: for every emitted event, handle is called at most once on each
\* registered listener whose declared event type is the event's type, in
\* registration order, and on no other listener; it is called on all of them
\* unless a call of handle raised, and then on those up to the raising one
\* only, for the last event of the run; no algorithm-end event is emitted.
C17_ListenerDispatch ==
    /\ NoEndEventAndInOrder
    /\ \A e \in 1..Len(events) :
           LET got == HandledFor(handled, e)
               all == Interested(events[e].type, 1)
           IN /\ IsPrefix(got, all)
              /\ got # all =>
                     /\ raised = "ListenerException"
                     /\ e = Len(events)
                     /\ got # <<>>
                     /\ statistic_listeners[got[Len(got)]].fail_at
                            = Cardinality({k \in 1..Len(handled) :
                                  handled[k].listener = got[Len(got)]})

\* The first event went to two or more listeners and to none of another
\* declared type; the last event stopped at a listener that raised, short of
\* a later one.
C17_Witness ==
    /\ raised = "ListenerException"
    /\ Len(events) >= 4
    /\ Len(HandledFor(handled, 1)) >= 2
    /\ Len(HandledFor(handled, Len(events)))
           < Len(Interested(events[Len(events)].type, 1))
    /\ \E i \in 1..Len(statistic_listeners) :
           /\ statistic_listeners[i].event_type # events[1].type
           /\ \A k \in 1..Len(handled) :
                  handled[k].listener = i => handled[k].event # 1

\* Call number k of handle raised: it was the fail_at-th call of its listener.
Failing(h, k) ==
    statistic_listeners[h[k].listener].fail_at
        = Cardinality({j \in 1..k : h[j].listener = h[k].listener})

\* A call of handle made in the step raised.
HandleFailed == \E k \in (Len(handled) + 1)..Len(handled') : Failing(handled', k)

\* C18: when a listener's handle fails, the failure leaves place_next, no
\* listener registered after it receives that event, and the call does nothing
\* more: the failing event is the call's last; a failure on before-cut leaves
\* the LRP, the stripe, the pool and the placed collection as they were before
\* the cut, a failure on after-cut leaves the detail unplaced and the index as
\* it was.
C18_FailStop ==
    [][HandleFailed =>
           LET d == detail'
               c == AfterCheck(d)
               last == handled'[Len(handled')]
               ev == events'[Len(events')]
           IN /\ raised' = "ListenerException"
              /\ \A k \in 1..Len(handled') :
                     Failing(handled', k) => k = Len(handled')
              /\ last.event = Len(events')
              /\ \A k \in 1..Len(handled') :
                     handled'[k].event = last.event =>
                         handled'[k].listener <= last.listener
              /\ ev.type = BEFORE_LRP_CUT =>
                     /\ TypesOf(NewEvents) = <<BEFORE_LRP_CUT>>
                     /\ lrp' = c.lrp
                     /\ stripe' = c.stripe
                     /\ boxes' = c.boxes
                     /\ placed_details' = c.placed_details
                     /\ last_placed_index' = last_placed_index
              /\ ev.type = AFTER_LRP_CUT =>
                     /\ TypesOf(NewEvents) = <<BEFORE_LRP_CUT, AFTER_LRP_CUT>>
                     /\ stripe' = ev.stripe
                     /\ boxes' = c.boxes
                     /\ placed_details' = ev.placed_details
                     /\ last_placed_index' = last_placed_index
              /\ ev.type = AFTER_DETAIL_PLACED =>
                     last_placed_index' = last_placed_index + 1
      ]_vars

\* A before-cut listener raised at the second cut of a run, with a before-cut
\* listener registered after it.
C18_Witness ==
    /\ raised = "ListenerException"
    /\ events[Len(events)].type = BEFORE_LRP_CUT
    /\ last_placed_index > n0 - 1
    /\ lrp # None
    /\ \E i \in 1..Len(statistic_listeners) :
           /\ statistic_listeners[i].event_type = BEFORE_LRP_CUT
           /\ i > handled[Len(handled)].listener

\* C19: with update_placed_details = False no call adds to, removes from or
\* reorders the placed collection: it stays the list the driver passed in.
C19_TrackingDisabledFrame ==
    ~update_placed_details => placed_details = <<base_detail>>

\* Without tracking, three details have been placed, through a cut and the
\* closing of a stripe.
C19_Witness ==
    /\ ~update_placed_details
    /\ raised = "none"
    /\ last_placed_index - (n0 - 1) >= 3
    /\ endpoints_placed >= 2
    /\ lrp # base_detail

\* The engine as constructed for this run's gamma, n0 and sheet, with the
\* tracking flag as given.
Constructed(flag) ==
    [gamma |-> gamma, update_placed_details |-> flag, boxes |-> <<>>,
     lrp |-> None, stripe |-> None, stripe_first_detail_index |-> n0 - 1,
     is_stripe_horizontal |-> FALSE, last_placed_index |-> n0 - 1,
     endpoints_placed |-> 1, stripe_from |-> NoneStr,
     placed_details |-> <<base_detail>>, events |-> <<>>, raised |-> "none",
     statistic_listeners |-> statistic_listeners, handled |-> <<>>,
     tracker |-> NormalBoxMaxRatioTracker,
     output_handler |-> OutputHandler(output_handler.mode,
                                      output_handler.file_path),
     file |-> <<>>, console |-> <<>>, written |-> <<>>]

\* The engine after the calls place_next(inputs[1]), place_next(inputs[2]), ...
\* up to the first that raises.
RECURSIVE Run(_, _)
Run(s, inputs) ==
    IF inputs = <<>> \/ s.raised # "none" THEN s
    ELSE Run(place_next(s, Head(inputs)), Tail(inputs))

\* The inputs of the calls made so far: one per after-placement event, and the
\* input of the failed call, if any.
Inputs ==
    LET IsPlaced(ev) == ev.type = AFTER_DETAIL_PLACED
        placed == SelectSeq(events, IsPlaced)
        ds == [k \in 1..Len(placed) |-> placed[k].detail]
    IN IF raised = "none" THEN ds ELSE Append(ds, events[Len(events)].detail)

\* What the two engines are compared on.
Observable(s) ==
    <<s.lrp, s.stripe, s.boxes, s.stripe_first_detail_index, s.last_placed_index,
      s.endpoints_placed, s.is_stripe_horizontal, s.stripe_from,
      TypesOf(s.events), s.raised>>

\* C20: for the same gamma, n0, sheet and inputs, an engine with tracking and
\* one without have the same LRP, stripe, pool, stripe-first index, last placed
\* index, endpoints_placed, orientation and provenance after every call, have
\* emitted the same event types, and have failed at the same call; the run
\* itself is the one of the two with its flag.
C20_TrackingFlagEquivalence ==
    LET tracked == Run(Constructed(TRUE), Inputs)
        untracked == Run(Constructed(FALSE), Inputs)
    IN /\ Observable(tracked) = Observable(untracked)
       /\ Observable(Self)
              = Observable(IF update_placed_details THEN tracked ELSE untracked)

\* A tracked run of four calls, with a stripe closed and taken again from the
\* pool, that ended in a failed cut.
C20_Witness ==
    /\ update_placed_details
    /\ raised = "AlgorithmExecutionException"
    /\ Len(Inputs) = 4
    /\ endpoints_placed >= 2
    /\ Len(placed_details) > 4

\* The sequence without the elements equal to x.
Without(seq, x) ==
    LET Other(y) == y # x
    IN SelectSeq(seq, Other)

\* The number of elements of the sequence equal to x.
Occurrences(seq, x) == Cardinality({i \in 1..Len(seq) : seq[i] = x})

\* C21: with tracking enabled, a cut removes the old LRP, and nothing else,
\* from the placed collection and appends the new stripe and then the new LRP;
\* a placement removes the consumed stripe, and nothing else, and appends the
\* placed detail, the normal box and the endpoint in that order; nothing else
\* in the collection is added, removed, moved or changed.
C21_TrackedCollectionUpdates ==
    [][update_placed_details =>
           LET d == detail'
               c == AfterCheck(d)
               a == before_placement(Self, d)
               types == TypesOf(NewEvents)
               cut == Len(types) >= 2 /\ types[2] = AFTER_LRP_CUT
               cut_ev == NewEvents[2]
               placed == types # <<>> /\ types[Len(types)] = AFTER_DETAIL_PLACED
               ev == NewEvents[Len(NewEvents)]
               at_placement == IF cut THEN cut_ev.placed_details
                               ELSE placed_details
           IN /\ c.placed_details = placed_details
              /\ cut =>
                     /\ Occurrences(placed_details, c.lrp) = 1
                     /\ cut_ev.placed_details
                            = Without(placed_details, c.lrp)
                                  \o <<cut_ev.stripe, cut_ev.lrp>>
              /\ placed =>
                     /\ Occurrences(at_placement, a.stripe) = 1
                     /\ placed_details'
                            = Without(at_placement, a.stripe)
                                  \o <<ev.placed_detail, ev.normal_box, ev.endpoint>>
              /\ ~placed => placed_details' = placed_details
      ]_vars

\* A tracked run has cut twice and placed three details, one of them into a
\* stripe that was already open.
C21_Witness ==
    /\ update_placed_details
    /\ raised = "none"
    /\ CountType(events, AFTER_LRP_CUT) >= 2
    /\ CountType(events, AFTER_DETAIL_PLACED) >= 3
    /\ Len(placed_details) = 1 + 2 * CountType(events, AFTER_DETAIL_PLACED)
                               + CountType(events, AFTER_LRP_CUT)

\* The elements of the placed collection of type lrp.
LrpsPlaced == {i \in 1..Len(placed_details) : placed_details[i].detail_type = LRP_NAME}

\* C22: with tracking enabled and a collection that started as the sheet
\* alone, after every call the placed collection holds exactly one Detail of
\* type lrp, that Detail is the engine's LRP, and it has positive area.
C22_ExactlyOneLrp ==
    (update_placed_details /\ lrp # None) =>
        /\ Cardinality(LrpsPlaced) = 1
        /\ \A i \in LrpsPlaced : placed_details[i] = lrp
        /\ Area(lrp) > 0

C24_GapIndexConsistency ==
    /\ [](\A k \in 1..Len(events) :
              events[k].type \in {BEFORE_LRP_CUT, AFTER_LRP_CUT} =>
                  /\ events[k].stripe_first_detail_index
                         = events[k].last_placed_index + 1
                  /\ required_gap(events[k].stripe_first_detail_index, gamma)
                         = Unit \div Pow(events[k].last_placed_index + 1, gamma))
    /\ [][(stripe # None /\ AfterCheck(detail').stripe # None) =>
              /\ stripe_first_detail_index' = stripe_first_detail_index
              /\ stripe_first_detail_index < last_placed_index + 1
              /\ stripe_first_detail_index' < last_placed_index' + 1
         ]_vars
    /\ []((raised = "none" /\ last_placed_index > n0 - 1) =>
              /\ n0 <= stripe_first_detail_index
              /\ stripe_first_detail_index <= last_placed_index)

\* A stripe opened by a cut at index n0 + 1 has taken a second detail.
C24_Witness ==
    /\ raised = "none"
    /\ stripe_first_detail_index = n0 + 1
    /\ last_placed_index = n0 + 2
    /\ stripe_from = LRP_NAME
    /\ CountType(events, AFTER_LRP_CUT) = 2

\* C25: whenever _place_detail_in_stripe runs, the stripe's extent along the
\* placement axis is at least width + required gap and its extent across is
\* at least height - for a stripe kept open, for a stripe taken from the pool
\* and for a stripe freshly cut.
C25_PlacementPrecondition ==
    [][LET d == detail'
           a == before_placement(Self, d)
           gap == required_gap(a.stripe_first_detail_index, gamma)
       IN a.raised = "none" =>
              /\ stripe_extent(a.stripe, a.is_stripe_horizontal) >= d[1] + gap
              /\ stripe_extent(a.stripe, ~a.is_stripe_horizontal) >= d[2]
      ]_vars

\* The gap a cut left between the detail and the far side of its new stripe,
\* read from the after-cut event.
GapOfCut(ev) ==
    (IF ev.is_stripe_horizontal THEN height(ev.stripe) ELSE width(ev.stripe))
        - ev.detail[2]

\* C26: for the run's gamma and indices i < j the run can reach,
\* (1/j)^gamma < (1/i)^gamma; so of two cuts of a run the later one, made at a
\* greater index, left the strictly smaller gap.
C26_GapMonotonicity ==
    /\ \A i, j \in 1..(n0 + MaxPlaced - 1) :
           i < j => required_gap(j, gamma) < required_gap(i, gamma)
    /\ \A k, m \in 1..Len(events) :
           (/\ k < m
            /\ events[k].type = AFTER_LRP_CUT
            /\ events[m].type = AFTER_LRP_CUT) =>
               /\ events[k].stripe_first_detail_index
                      < events[m].stripe_first_detail_index
               /\ GapOfCut(events[m]) < GapOfCut(events[k])
               /\ GapOfCut(events[k])
                      = required_gap(events[k].stripe_first_detail_index, gamma)

\* Three cuts were made in one run, at three different indices.
C26_Witness ==
    /\ raised = "none"
    /\ CountType(events, AFTER_LRP_CUT) >= 3

\* C27: after every call that returns normally a stripe is open: it is the
\* endpoint made by that call, the one its after-placement event carries, of
\* type endpoint_1 or endpoint_2, and that event reports the incremented
\* last_placed_index; no stripe is open only before the first call and after a
\* failed call.
C27_StripeOpenAfterCall ==
    /\ [][raised' = "none" =>
              LET ev == events'[Len(events')]
              IN /\ NewEvents # <<>>
                 /\ ev.type = AFTER_DETAIL_PLACED
                 /\ stripe' # None
                 /\ stripe' = ev.endpoint
                 /\ stripe' = ev.stripe
                 /\ stripe'.detail_type \in EndpointTypes
                 /\ ev.last_placed_index = last_placed_index + 1
                 /\ ev.last_placed_index = last_placed_index'
         ]_vars
    /\ [](stripe = None => (events = <<>> \/ raised # "none"))

\* A call left a stripe of type endpoint_2 open, and a later call failed and
\* left none.
C27_Witness ==
    /\ raised = "AlgorithmExecutionException"
    /\ stripe = None
    /\ \E k \in 1..Len(events) :
           /\ events[k].type = AFTER_DETAIL_PLACED
           /\ events[k].stripe.detail_type = ENDPOINT_TYPE_2_NAME

\* C28: a call that places without a cut, into the open stripe or into a pool
\* box, leaves the LRP as it was; a cut replaces the LRP by a rectangle inside
\* the previous one, smaller by the area of the stripe cut off; so the area of
\* the LRP never grows in a run.
C28_LrpFrameAndShrinkage ==
    [][LET types == TypesOf(NewEvents)
           old == AfterCheck(detail').lrp
       IN /\ types = <<AFTER_DETAIL_PLACED>> =>
                 /\ lrp # None
                 /\ lrp' = lrp
          /\ (Len(types) >= 2 /\ types[2] = AFTER_LRP_CUT) =>
                 /\ lrp' # old
                 /\ Inside(lrp', old)
                 /\ Area(lrp') = Area(old) - Area(NewEvents[2].stripe)
                 /\ Area(lrp') < Area(old)
          /\ lrp # None => lrp'.name = lrp.name
          /\ Area(lrp') <= Area(old)
      ]_vars

\* After two cuts, a call placed into a box taken from the pool and left the
\* LRP as the second cut had made it.
C28_Witness ==
    /\ raised = "none"
    /\ stripe_from \in NormalBoxTypes
    /\ CountType(events, AFTER_LRP_CUT) = 2
    /\ events[Len(events)].type = AFTER_DETAIL_PLACED
    /\ events[Len(events) - 1].type = AFTER_DETAIL_PLACED
    /\ Area(lrp) < Area(base_detail)

\* The elements of the placed collection of type detail.
DetailsPlaced ==
    {placed_details[i] : i \in {k \in 1..Len(placed_details) :
                                    placed_details[k].detail_type = DETAIL_NAME}}

\* C29: with tracking enabled and a collection that started as the sheet
\* alone, after every successful call the placed collection is the disjoint
\* union of the placed details, the pool entries, the open stripe and the LRP;
\* so the removals from the collection always find their target (no
\* ValueError), and the open stripe is never a pool entry.
C29_CollectionIsDisjointUnion ==
    /\ raised # "ValueError"
    /\ (update_placed_details /\ raised = "none" /\ events # <<>>) =>
           /\ SeqToSet(placed_details)
                  = DetailsPlaced \cup SeqToSet(boxes) \cup {stripe, lrp}
           /\ Cardinality(SeqToSet(placed_details)) = Len(placed_details)
           /\ Len(placed_details)
                  = Cardinality(DetailsPlaced) + Len(boxes) + 2
           /\ Cardinality(DetailsPlaced) = last_placed_index - (n0 - 1)
           /\ ~Contains(boxes, stripe)
           /\ ~Contains(boxes, lrp)
           /\ stripe # lrp

\* A tracked run in which a stripe was closed into the pool and a box was
\* taken from the pool as the stripe.
C29_Witness ==
    /\ update_placed_details
    /\ raised = "none"
    /\ endpoints_placed >= 2
    /\ stripe_from \in NormalBoxTypes
    /\ Len(boxes) >= 3

\* What a failed call leaves besides the LRP: last_placed_index and the placed
\* collection as before the call, no stripe open, the before-cut event as the
\* call's only event, and no Detail that did not exist before the call.
FailureLeavesRest ==
    /\ last_placed_index' = last_placed_index
    /\ placed_details' = placed_details
    /\ stripe' = None
    /\ TypesOf(NewEvents) = <<BEFORE_LRP_CUT>>
    /\ SeqToSet(boxes') \subseteq SeqToSet(boxes) \cup {stripe}

\* C30 as stated: when place_next fails with AlgorithmExecutionException, the
\* LRP, last_placed_index and the placed collection are as they were before
\* the call, no stripe is open, no after-cut or after-placement event was
\* emitted for the call and no Detail was created by it.
C30_FailureLeavesLrpAsBefore ==
    [][raised' = "AlgorithmExecutionException" =>
           /\ lrp' = lrp
           /\ FailureLeavesRest
      ]_vars

\* C30 amended: as stated, except that a first call that fails leaves the
\* LRP, unset before the call, set to the sheet (the head of the collection).
C30_FailureLeavesState ==
    [][raised' = "AlgorithmExecutionException" =>
           /\ lrp # None => lrp' = lrp
           /\ lrp = None => lrp' = placed_details[1]
           /\ FailureLeavesRest
      ]_vars

\* A call made after two cuts closed the open stripe and then failed in the
\* cut.
C30_Witness ==
    /\ raised = "AlgorithmExecutionException"
    /\ CountType(events, AFTER_LRP_CUT) >= 2
    /\ lrp # base_detail
    /\ \E i \in 1..Len(boxes) :
           /\ boxes[i].detail_type \in EndpointTypes
           /\ boxes[i].name = <<ENDPOINT_PREFIX, endpoints_placed - 1>>
           /\ boxes[i] = events[Len(events) - 1].stripe

\* The number of calls among place_next(inputs[1]), ... made on engine s that
\* closed the open stripe.
RECURSIVE Closures(_, _)
Closures(s, inputs) ==
    IF inputs = <<>> \/ s.raised # "none" THEN 0
    ELSE (IF /\ s.stripe # None
             /\ Head(inputs)[1] + Unit \div Pow(s.stripe_first_detail_index, s.gamma)
                    > (IF s.is_stripe_horizontal THEN width(s.stripe)
                       ELSE height(s.stripe))
          THEN 1 ELSE 0)
         + Closures(place_next(s, Head(inputs)), Tail(inputs))

\* The number of elements of the sequence equal to x, as a bag would count.
PoolCount(bs, x) == Cardinality({i \in 1..Len(bs) : bs[i] = x})

\* C31: over one successful call the pool changes by exactly plus the new
\* normal box, plus the closed stripe if the open stripe was closed, minus the
\* acquired box if a pool box was taken; no box is in the pool twice, also
\* when boxes tie in min(width, height); endpoints_placed is always 1 plus the
\* number of stripe closures so far.
C31_PoolConservation ==
    /\ [][raised' = "none" =>
              LET d == detail'
                  c == AfterCheck(d)
                  a == before_placement(Self, d)
                  ev == events'[Len(events')]
                  closed == stripe # None /\ c.stripe = None
                  taken == c.stripe = None /\ a.events = events
                  plus == {ev.normal_box} \cup (IF closed THEN {stripe} ELSE {})
                  minus == IF taken THEN {a.stripe} ELSE {}
              IN /\ \A x \in SeqToSet(boxes) \cup SeqToSet(boxes') \cup plus :
                        PoolCount(boxes', x)
                            = PoolCount(boxes, x)
                                  + (IF x \in plus THEN 1 ELSE 0)
                                  - (IF x \in minus THEN 1 ELSE 0)
                 /\ Len(boxes') = Len(boxes) + Cardinality(plus) - Cardinality(minus)
                 /\ taken => PoolCount(c.boxes, a.stripe) = 1
         ]_vars
    /\ [](/\ Cardinality(SeqToSet(boxes)) = Len(boxes)
          /\ endpoints_placed
                 = 1 + Closures(Constructed(update_placed_details), Inputs))

\* The last call closed the open stripe and took a box from a pool in which
\* two boxes tie, and the pool still holds two boxes that tie.
C31_Witness ==
    /\ raised = "none"
    /\ endpoints_placed >= 2
    /\ stripe_from \in NormalBoxTypes \cup EndpointTypes
    /\ stripe_first_detail_index = last_placed_index
    /\ \E i \in 1..Len(boxes) :
           /\ boxes[i].name = <<ENDPOINT_PREFIX, endpoints_placed - 1>>
           /\ boxes[i] = events[Len(events) - 1].stripe
    /\ \E i, j \in 1..Len(boxes) :
           i < j /\ MinSide(boxes[i]) = MinSide(boxes[j])

\* The live Details: the details placed so far, the pool, the stripe and the
\* LRP, and with tracking the placed collection (without tracking that list
\* still holds the sheet, which the first cut replaced).
Live ==
    ({events[k].placed_detail :
          k \in {m \in 1..Len(events) : events[m].type = AFTER_DETAIL_PLACED}}
     \cup (IF update_placed_details THEN SeqToSet(placed_details) ELSE {})
     \cup SeqToSet(boxes) \cup {stripe, lrp}) \ {None}

\* C32: after any sequence of successful calls no two different live Details -
\* placed details, normal boxes, endpoints and closed stripes, the LRP - have
\* the same name; the open stripe and the closed stripes in the pool carry
\* pairwise different Ep numbers.
C32_UniqueNames ==
    raised = "none" =>
        /\ \A x, y \in Live : x # y => x.name # y.name
        /\ \A i \in 1..Len(boxes) :
               (stripe # None /\ boxes[i].detail_type \in EndpointTypes) =>
                   /\ boxes[i].name[1] = ENDPOINT_PREFIX
                   /\ stripe.name[1] = ENDPOINT_PREFIX
                   /\ boxes[i].name[2] # stripe.name[2]

\* Two closed stripes lie in the pool of a tracked run while a third stripe is
\* open.
C32_Witness ==
    /\ raised = "none"
    /\ update_placed_details
    /\ stripe # None
    /\ Cardinality({i \in 1..Len(boxes) :
                        boxes[i].detail_type \in EndpointTypes}) >= 2

\* ---------------------------------------------------------------- C33
\* The after-placement events so far, in order.
PlacedEvents ==
    LET IsPlaced(ev) == ev.type = AFTER_DETAIL_PLACED
    IN SelectSeq(events, IsPlaced)

\* The ratio min_size / max_size^gamma of the normal box of an event.
RatioOf(ev) ==
    ratio(Min(height(ev.normal_box), width(ev.normal_box)),
          Max(height(ev.normal_box), width(ev.normal_box)), ev.gamma)

Less(a, b) == a[1] * b[2] < b[1] * a[2]

\* Event k sets a record: its ratio is above the ratio of every earlier event.
IsRecord(k) ==
    \A j \in 1..(k - 1) : Less(RatioOf(PlacedEvents[j]), RatioOf(PlacedEvents[k]))

\* The first event of the maximal run of records that holds event k.
RECURSIVE RunStart(_)
RunStart(k) == IF k > 1 /\ IsRecord(k - 1) THEN RunStart(k - 1) ELSE k

\* One message per maximal run of records that a non-record event has ended,
\* in the order of the runs.
ClosedRuns ==
    LET n == Len(PlacedEvents)
        Ends(k) == IsRecord(k) /\ k < n /\ ~IsRecord(k + 1)
        ends == SelectSeq([k \in 1..n |-> k], Ends)
    IN [m \in 1..Len(ends) |->
           <<PlacedEvents[RunStart(ends[m])].last_placed_index,
             PlacedEvents[ends[m]].last_placed_index,
             RatioOf(PlacedEvents[RunStart(ends[m])]),
             RatioOf(PlacedEvents[ends[m]])>>]

\* C33: the NormalBoxMaxRatioTracker has written exactly one message per
\* maximal run of consecutive record-setting after-placement events that a
\* non-record event has ended, in order, each giving the first and last index
\* and value of its run (when the output handler refuses the write, the
\* refused message is the only one missing); and current_max never decreases.
C33_MaximaRuns ==
    /\ [][~Less(tracker'.current_max, tracker.current_max)]_vars
    /\ [](IF raised = "ValueError"
          THEN ClosedRuns = Append(written, tracker_message(tracker))
          ELSE ClosedRuns = written)

\* Two runs of records have been reported to a file.
C33_Witness ==
    /\ output_handler.mode = FILE_OVERWRITE
    /\ Len(written) = 2
    /\ raised = "none"

\* ---------------------------------------------------------------- C34
\* The handler cannot write: its mode is not one of the three, or it is a file
\* mode and there is no path.
CannotWrite ==
    \/ output_handler.mode \notin {CONSOLE, FILE_APPEND, FILE_OVERWRITE}
    \/ /\ output_handler.mode \in {FILE_APPEND, FILE_OVERWRITE}
       /\ output_handler.file_path \in {NoneStr, ""}

\* What one write of message does to the file, by the mode of the handler.
WriteOutcome(message) ==
    IF CannotWrite
    THEN raised' = "ValueError" /\ file' = file /\ console' = console
    ELSE /\ raised' = "none"
         /\ written' = Append(written, message)
         /\ IF output_handler.mode = FILE_OVERWRITE
            THEN file' = IF written = <<>> THEN <<message>>
                         ELSE Append(file, message)
            ELSE IF output_handler.mode = FILE_APPEND
            THEN file' = Append(file, message)
            ELSE file' = file /\ console' = Append(console, message)

\* C34: in file_overwrite mode only the first write of a handler replaces the
\* contents of the file and every later write appends, so that after one or
\* more writes the file holds exactly the messages written, in order; in
\* file_append mode every write adds its message after the contents the file
\* had; a write with an unknown mode, or with a file mode and no path, raises
\* ValueError and leaves file and console as they were.
C34_FileModes ==
    /\ [][\E message \in Messages : WriteOutcome(message)]_vars
    /\ []((output_handler.mode = FILE_OVERWRITE /\ written # <<>>)
              => file = written)

\* Two messages have been written in file_overwrite mode.
C34_Witness ==
    /\ output_handler.mode = FILE_OVERWRITE
    /\ Len(written) >= 2
    /\ file = written

====
